---- MODULE Spec2Model ----
(***************************************************************************)
(* Model of backend/main.py: the in-memory planning-poker rooms, the       *)
(* websocket handler (one asyncio task per connection) and the broadcast.  *)
(* One step of the model is the code one task runs between two suspension  *)
(* points (await of a contended lock, of a send, of a receive).            *)
(***************************************************************************)
EXTENDS Integers, Sequences, FiniteSets, TLC

\* ---- bounds ----
NumSessions == 3
MaxMsgs == 2

Sessions == 1..NumSessions
RoomIds == {"r1"}
RequestedNames == {"A"}
\* values secrets.token_hex(2) can take (two of the 65536)
TokenHex == <<"00a1", "ffff">>

\* Python None / JSON null
None == "None"
FIB == <<1, 2, 3, 5, 8, 13, 21, 34>>
\* JSON numbers of the available list, written as their JSON text
Available == {"1", "2", "3", "5", "8", "13", "21", "34"}
\* vote values a client sends: the numbers 5 and 8, the string "pending",
\* a JSON array (unhashable in Python)
Values == {"5", "8", "pending", "[]"}
\* titles a client sends: null, the empty string, a non-empty string
Titles == {None, "", "Story 1"}
SinTitulo == "Sin titulo"

NoMsg == [type |-> "none"]
NoLock == 0

VARIABLES
    rooms,      \* the registry: room id -> room
    lockHeld,   \* asyncio.Lock._locked, per lock object (named by the session that created the room)
    waiters,    \* asyncio.Lock._waiters, per lock object, FIFO
    pc,         \* position of each connection's handler task
    room,       \* handler local: room
    user,       \* handler local: user (the effective name after the join)
    myLock,     \* the lock object the task waits for or holds across a suspension
    op,         \* handler local: msg, while its handler waits for the lock
    raw,        \* handler local: kind of the payload read last
    bq,         \* broadcast local: connections still to be sent to
    bmsg,       \* broadcast local: data
    lastMsg,    \* last message delivered to the client of each connection
    budget      \* inbound messages still to come

vars == <<rooms, lockHeld, waiters, pc, room, user, myLock, op, raw, bq, bmsg,
          lastMsg, budget>>

\* ---- the room's users dict, in insertion order ----
Names(us) == {us[i].name : i \in DOMAIN us}

IndexOf(us, n) == CHOOSE i \in DOMAIN us : us[i].name = n

RemoveAt(us, k) == [i \in 1..(Len(us) - 1) |-> IF i < k THEN us[i] ELSE us[i + 1]]

\* rooms[room]["users"][user] = {"ws": websocket, "vote": None}
PutUser(us, n, s) ==
    IF n \in Names(us)
    THEN [us EXCEPT ![IndexOf(us, n)] = [name |-> n, ws |-> s, vote |-> None]]
    ELSE Append(us, [name |-> n, ws |-> s, vote |-> None])

\* del rooms[room]["users"][user], if present
DelUser(us, n) == IF n \in Names(us) THEN RemoveAt(us, IndexOf(us, n)) ELSE us

\* ---- room_state ----
Hashable(v) == v # "[]"

\* counts[v] = counts.get(v, 0) + 1 raises TypeError on an unhashable vote
room_state_raises(R, r) ==
    /\ r \in DOMAIN R
    /\ \E i \in DOMAIN R[r].users :
          R[r].users[i].vote # None /\ ~Hashable(R[r].users[i].vote)

counts(us) ==
    LET voted == {us[i].vote : i \in {j \in DOMAIN us : us[j].vote # None}}
        pending == Cardinality({i \in DOMAIN us : us[i].vote = None})
    IN  [k \in voted \cup {"pending"} |->
            IF k = "pending" THEN pending
            ELSE Cardinality({i \in DOMAIN us : us[i].vote = k})]

room_state(R, r) ==
    IF r \notin DOMAIN R
    THEN [users |-> <<>>, available |-> FIB, counts |-> [k \in {} |-> 0],
          title |-> None, history |-> <<>>]
    ELSE [users |-> [i \in DOMAIN R[r].users |->
                        [name |-> R[r].users[i].name, vote |-> R[r].users[i].vote]],
          available |-> FIB,
          counts |-> counts(R[r].users),
          title |-> R[r].current_title,
          history |-> R[r].history]

\* ---- the mutations of the handler ----
NewRoom(s) == [users |-> <<>>, lock |-> s, current_title |-> None, history |-> <<>>]

\* if user in rooms[room]["users"]: user = f"{user}_{secrets.token_hex(2)}"
\* The token is any of TokenHex. Tokens differ only by which names they
\* collide with, so of the tokens that give a name no connection has
\* (inUse: the names of the room and of the handlers' locals) the first one
\* stands for all of them.
Suffixed(u) == [i \in DOMAIN TokenHex |-> u \o "_" \o TokenHex[i]]

EffectiveNames(us, u, inUse) ==
    IF u \in Names(us)
    THEN LET c == Suffixed(u)
             free == {i \in DOMAIN c : c[i] \notin inUse}
         IN  {c[i] : i \in {j \in DOMAIN c : j \notin free \/ \A k \in free : j <= k}}
    ELSE {u}

SetTitle(R, r, t) == [R EXCEPT ![r].current_title = t]

SetVote(R, r, u, v) ==
    [R EXCEPT ![r].users[IndexOf(R[r].users, u)].vote = v]

\* a test for None in place of the test for a false value
HistoryTitleIfNone(t) == IF t = None THEN SinTitulo ELSE t

\* current.get("current_title") or "Sin titulo"
HistoryTitle(t) == IF t = None \/ t = "" THEN SinTitulo ELSE t

\* a reset that keeps only the round it records
ResetKeepsLastRound(R, r) ==
    [R EXCEPT ![r].history =
                  <<[title |-> HistoryTitle(R[r].current_title),
                     results |-> room_state(R, r).counts]>>,
              ![r].users = [i \in DOMAIN @ |-> [@[i] EXCEPT !.vote = None]],
              ![r].current_title = None]

Reset(R, r) ==
    [R EXCEPT ![r].history =
                  Append(@, [title |-> HistoryTitle(R[r].current_title),
                             results |-> room_state(R, r).counts]),
              ![r].users = [i \in DOMAIN @ |-> [@[i] EXCEPT !.vote = None]],
              ![r].current_title = None]

Remove(R, r) == [k \in DOMAIN R \ {r} |-> R[k]]

\* the transport of a connection takes messages: the client has not closed it
\* (the handler then leaves its loop, lines 144-151) and the server has not
\* closed it (the handler has not ended)
Open(s) == pc[s] \in {"join_wait", "bcast", "recv", "op_wait"}

\* ---- asyncio.Lock ----
CanAcquire(l) == ~lockHeld[l] /\ waiters[l] = <<>>

Init ==
    /\ rooms = [r \in {} |-> 0]
    /\ lockHeld = [l \in Sessions |-> FALSE]
    /\ waiters = [l \in Sessions |-> <<>>]
    /\ pc = [s \in Sessions |-> "init"]
    /\ room = [s \in Sessions |-> None]
    /\ user = [s \in Sessions |-> None]
    /\ myLock = [s \in Sessions |-> NoLock]
    /\ op = [s \in Sessions |-> NoMsg]
    /\ raw = [s \in Sessions |-> "none"]
    /\ bq = [s \in Sessions |-> <<>>]
    /\ bmsg = [s \in Sessions |-> NoMsg]
    /\ lastMsg = [s \in Sessions |-> NoMsg]
    /\ budget = MaxMsgs

\* ---- inbound payloads ----
ClientMsgs ==
    {[type |-> None], [type |-> "unknown"], [type |-> "reset"], [type |-> "request_state"]}
    \cup {[type |-> "set_title", title |-> t] : t \in Titles}
    \cup {[type |-> "vote", value |-> v] : v \in Values}

\* text that is not JSON; JSON that is not an object (array, number, string,
\* null); a JSON object
Payloads ==
    {[kind |-> "notjson"], [kind |-> "nonobject"]}
    \cup {[kind |-> "object", msg |-> m] : m \in ClientMsgs}


\* ---- pieces of the handler ----
\* an exception other than WebSocketDisconnect leaves websocket_endpoint:
\* the task ends without the except clause, the server closes the connection
Raise(s, R) ==
    /\ rooms' = R
    /\ pc' = [pc EXCEPT ![s] = "crashed"]
    /\ lastMsg' = [lastMsg EXCEPT ![s] = NoMsg]
    /\ UNCHANGED <<bq, bmsg>>

\* a broadcast whose snapshot is taken before the step's mutation
broadcastStale(s, R, r, m, sendpc, retpc) ==
    /\ rooms' = R
    /\ IF r \notin DOMAIN R \/ R[r].users = <<>>
       THEN /\ pc' = [pc EXCEPT ![s] = retpc]
            /\ UNCHANGED <<bq, bmsg>>
       ELSE /\ pc' = [pc EXCEPT ![s] = sendpc]
            /\ bq' = [bq EXCEPT ![s] = [i \in DOMAIN R[r].users |-> R[r].users[i].ws]]
            /\ bmsg' = [bmsg EXCEPT ![s] = [m EXCEPT !.state = room_state(rooms, r)]]
    /\ lastMsg' = IF sendpc = "part_bcast" THEN [lastMsg EXCEPT ![s] = NoMsg] ELSE lastMsg

\* broadcast(room_id, message) up to its first await
broadcast(s, R, r, m, sendpc, retpc) ==
    /\ rooms' = R
    /\ IF r \notin DOMAIN R \/ R[r].users = <<>>
       THEN /\ pc' = [pc EXCEPT ![s] = retpc]
            /\ UNCHANGED <<bq, bmsg>>
       ELSE /\ pc' = [pc EXCEPT ![s] = sendpc]
            /\ bq' = [bq EXCEPT ![s] = [i \in DOMAIN R[r].users |-> R[r].users[i].ws]]
            /\ bmsg' = [bmsg EXCEPT ![s] = m]
    /\ lastMsg' = IF sendpc = "part_bcast" THEN [lastMsg EXCEPT ![s] = NoMsg] ELSE lastMsg

\* await broadcast(room, {..., "state": room_state(room)}): the argument is
\* evaluated first, and room_state may raise
Announce(s, R, r, m, sendpc, retpc) ==
    IF room_state_raises(R, r) THEN Raise(s, R)
    ELSE broadcast(s, R, r, m, sendpc, retpc)

\* lines 94-98, the lock held
JoinBody(s, R, r, u) ==
    IF r \notin DOMAIN R
    THEN /\ Raise(s, R)
         /\ user' = [user EXCEPT ![s] = u]
    ELSE \E e \in EffectiveNames(R[r].users, u,
                                  Names(R[r].users) \cup {user[t] : t \in Sessions}) :
            LET R2 == [R EXCEPT ![r].users = PutUser(@, e, s)] IN
            /\ user' = [user EXCEPT ![s] = e]
            /\ Announce(s, R2, r,
                        [type |-> "joined", user |-> e, state |-> room_state(R2, r)],
                        "bcast", "recv")

\* lines 111-139, the lock held
OpBody(s, m) ==
    LET r == room[s]
        u == user[s]
    IN  IF r \notin DOMAIN rooms THEN Raise(s, rooms)
        ELSE IF m.type = "set_title" THEN
            LET R2 == SetTitle(rooms, r, m.title) IN
            Announce(s, R2, r,
                     [type |-> "title_set", title |-> m.title, state |-> room_state(R2, r)],
                     "bcast", "recv")
        ELSE IF m.type = "vote" THEN
            IF u \notin Names(rooms[r].users) THEN Raise(s, rooms)
            ELSE LET R2 == SetVote(rooms, r, u, m.value) IN
                 Announce(s, R2, r,
                          [type |-> "vote", user |-> u, value |-> m.value,
                           state |-> room_state(R2, r)],
                          "bcast", "recv")
        ELSE \* reset
            IF room_state_raises(rooms, r) THEN Raise(s, rooms)
            ELSE LET R2 == Reset(rooms, r) IN
                 Announce(s, R2, r, [type |-> "reset", state |-> room_state(R2, r)],
                          "bcast", "recv")

\* lines 146-151, the lock held
PartBody(s) ==
    LET r == room[s]
        u == user[s]
    IN  IF r \notin DOMAIN rooms THEN Raise(s, rooms)
        ELSE LET R1 == [rooms EXCEPT ![r].users = DelUser(@, u)] IN
             IF R1[r].users = <<>>
             THEN /\ rooms' = Remove(R1, r)
                  /\ pc' = [pc EXCEPT ![s] = "done"]
                  /\ lastMsg' = [lastMsg EXCEPT ![s] = NoMsg]
                  /\ UNCHANGED <<bq, bmsg>>
             ELSE Announce(s, R1, r,
                           [type |-> "left", user |-> u, state |-> room_state(R1, r)],
                           "part_bcast", "done")

\* async with lock: the lock is taken, the task waits for it
Wait(s, l, wpc) ==
    /\ waiters' = [waiters EXCEPT ![l] = Append(@, s)]
    /\ myLock' = [myLock EXCEPT ![s] = l]
    /\ pc' = [pc EXCEPT ![s] = wpc]
    /\ lastMsg' = IF wpc = "part_wait" THEN [lastMsg EXCEPT ![s] = NoMsg] ELSE lastMsg
    /\ UNCHANGED <<lockHeld, bq, bmsg>>

\* the first waiter of a released lock runs again
Woken(s, wpc) ==
    /\ pc[s] = wpc
    /\ ~lockHeld[myLock[s]]
    /\ waiters[myLock[s]] # <<>>
    /\ Head(waiters[myLock[s]]) = s

\* connections are numbered in the order in which they are opened
NextToOpen(s) == pc[s] = "init" /\ \A t \in Sessions : t < s => pc[t] # "init"

\* ---- the actions ----
\* a rejection that has registered the room before it tests the parameters
ConnectMissingCreatesRoom(s) ==
    /\ NextToOpen(s)
    /\ pc' = [pc EXCEPT ![s] = "rejected"]
    /\ lastMsg' = [lastMsg EXCEPT ![s] = [type |-> "error", msg |-> "missing room or user"]]
    /\ rooms' = IF "r1" \in DOMAIN rooms THEN rooms ELSE ("r1" :> NewRoom(s)) @@ rooms
    /\ UNCHANGED <<lockHeld, waiters, room, user, myLock, op, raw, bq, bmsg, budget>>

\* lines 72-80: room or user missing
ConnectMissing(s) ==
    /\ NextToOpen(s)
    /\ pc' = [pc EXCEPT ![s] = "rejected"]
    /\ lastMsg' = [lastMsg EXCEPT ![s] = [type |-> "error", msg |-> "missing room or user"]]
    /\ UNCHANGED <<rooms, lockHeld, waiters, room, user, myLock, op, raw, bq, bmsg, budget>>

\* lines 82-98
Join(s, r, u) ==
    /\ NextToOpen(s)
    /\ LET R1 == IF r \in DOMAIN rooms THEN rooms ELSE (r :> NewRoom(s)) @@ rooms
           l == R1[r].lock
       IN  /\ room' = [room EXCEPT ![s] = r]
           /\ IF CanAcquire(l)
              THEN /\ JoinBody(s, R1, r, u)
                   /\ UNCHANGED <<lockHeld, waiters, myLock>>
              ELSE /\ rooms' = R1
                   /\ user' = [user EXCEPT ![s] = u]
                   /\ Wait(s, l, "join_wait")
    /\ UNCHANGED <<op, raw, budget>>

ResumeJoin(s) ==
    /\ Woken(s, "join_wait")
    /\ JoinBody(s, rooms, room[s], user[s])
    /\ waiters' = [waiters EXCEPT ![myLock[s]] = Tail(@)]
    /\ myLock' = [myLock EXCEPT ![s] = NoLock]
    /\ UNCHANGED <<lockHeld, room, op, raw, budget>>

\* a handler that lets the JSONDecodeError end the task
OnDecodeErrorUncaught(s) ==
    /\ Raise(s, rooms)
    /\ UNCHANGED <<lockHeld, waiters, myLock, op>>

\* except json.JSONDecodeError: continue
OnDecodeError(s) ==
    UNCHANGED <<rooms, lockHeld, waiters, pc, myLock, op, bq, bmsg, lastMsg>>

\* lines 102-142: one message read and dispatched
Receive(s, p) ==
    /\ pc[s] = "recv"
    /\ budget > 0
    /\ budget' = budget - 1
    /\ raw' = [raw EXCEPT ![s] = p.kind]
    /\ UNCHANGED <<room, user>>
    /\ IF p.kind = "notjson"
       THEN OnDecodeError(s)
       ELSE IF p.kind = "nonobject"
       THEN \* msg.get raises AttributeError
            /\ Raise(s, rooms)
            /\ UNCHANGED <<lockHeld, waiters, myLock, op>>
       ELSE IF p.msg.type \in {"set_title", "vote", "reset"}
       THEN IF room[s] \notin DOMAIN rooms
            THEN \* rooms[room] raises KeyError
                 /\ Raise(s, rooms)
                 /\ UNCHANGED <<lockHeld, waiters, myLock, op>>
            ELSE IF CanAcquire(rooms[room[s]].lock)
            THEN /\ OpBody(s, p.msg)
                 /\ UNCHANGED <<lockHeld, waiters, myLock, op>>
            ELSE /\ Wait(s, rooms[room[s]].lock, "op_wait")
                 /\ op' = [op EXCEPT ![s] = p.msg]
                 /\ UNCHANGED rooms
       ELSE IF p.msg.type = "request_state"
       THEN IF room_state_raises(rooms, room[s])
            THEN /\ Raise(s, rooms)
                 /\ UNCHANGED <<lockHeld, waiters, myLock, op>>
            ELSE /\ lastMsg' = [lastMsg EXCEPT ![s] =
                                   [type |-> "state", state |-> room_state(rooms, room[s])]]
                 /\ UNCHANGED <<rooms, lockHeld, waiters, pc, myLock, op, bq, bmsg>>
       ELSE \* no branch of the if/elif chain matches
            UNCHANGED <<rooms, lockHeld, waiters, pc, myLock, op, bq, bmsg, lastMsg>>

ResumeOp(s) ==
    /\ Woken(s, "op_wait")
    /\ OpBody(s, op[s])
    /\ waiters' = [waiters EXCEPT ![myLock[s]] = Tail(@)]
    /\ myLock' = [myLock EXCEPT ![s] = NoLock]
    /\ op' = [op EXCEPT ![s] = NoMsg]
    /\ UNCHANGED <<lockHeld, room, user, raw, budget>>

\* a broadcast that gives up at the first send that raises
OnSendErrorAbort(q) == <<>>

\* except Exception as e: print(...): the loop goes on with the users that
\* remain
OnSendError(q) == Tail(q)

\* one await ws.send_text(data) of a broadcast; after the last one the
\* broadcast returns
Send(s) ==
    /\ pc[s] \in {"bcast", "part_bcast"}
    /\ bq[s] # <<>>
    /\ LET w == Head(bq[s]) IN
       /\ lastMsg' = IF Open(w) THEN [lastMsg EXCEPT ![w] = bmsg[s]] ELSE lastMsg
       /\ bq' = [bq EXCEPT ![s] = IF Open(w) THEN Tail(@) ELSE OnSendError(@)]
    /\ IF bq'[s] = <<>>
       THEN /\ bmsg' = [bmsg EXCEPT ![s] = NoMsg]
            /\ IF pc[s] = "bcast"
               THEN /\ pc' = [pc EXCEPT ![s] = "recv"]
                    /\ UNCHANGED <<lockHeld, myLock>>
               ELSE /\ pc' = [pc EXCEPT ![s] = "done"]
                    /\ lockHeld' = [lockHeld EXCEPT ![myLock[s]] = FALSE]
                    /\ myLock' = [myLock EXCEPT ![s] = NoLock]
       ELSE UNCHANGED <<bmsg, pc, lockHeld, myLock>>
    /\ UNCHANGED <<rooms, waiters, room, user, op, raw, budget>>

\* the transport closes and receive_text raises WebSocketDisconnect:
\* lines 144-151
Part(s) ==
    /\ pc[s] = "recv"
    /\ IF room[s] \notin DOMAIN rooms
       THEN /\ Raise(s, rooms)
            /\ UNCHANGED <<lockHeld, waiters, myLock>>
       ELSE LET l == rooms[room[s]].lock IN
            IF CanAcquire(l)
            THEN /\ PartBody(s)
                 /\ lockHeld' = [lockHeld EXCEPT ![l] = (pc'[s] = "part_bcast")]
                 /\ myLock' = [myLock EXCEPT ![s] = IF pc'[s] = "part_bcast" THEN l ELSE NoLock]
                 /\ UNCHANGED waiters
            ELSE /\ Wait(s, l, "part_wait")
                 /\ UNCHANGED rooms
    /\ UNCHANGED <<room, user, op, raw, budget>>

ResumePart(s) ==
    /\ Woken(s, "part_wait")
    /\ PartBody(s)
    /\ waiters' = [waiters EXCEPT ![myLock[s]] = Tail(@)]
    /\ lockHeld' = [lockHeld EXCEPT ![myLock[s]] = (pc'[s] = "part_bcast")]
    /\ myLock' = [myLock EXCEPT ![s] = IF pc'[s] = "part_bcast" THEN @ ELSE NoLock]
    /\ UNCHANGED <<room, user, op, raw, budget>>

Next ==
    \/ \E s \in Sessions : ConnectMissing(s)
    \/ \E s \in Sessions, r \in RoomIds, u \in RequestedNames : Join(s, r, u)
    \/ \E s \in Sessions : ResumeJoin(s)
    \/ \E s \in Sessions, p \in Payloads : Receive(s, p)
    \/ \E s \in Sessions : ResumeOp(s)
    \/ \E s \in Sessions : Send(s)
    \/ \E s \in Sessions : Part(s)
    \/ \E s \in Sessions : ResumePart(s)

Spec == Init /\ [][Next]_vars

TypeOK ==
    /\ DOMAIN rooms \subseteq RoomIds
    /\ \A s \in Sessions : pc[s] \in {"init", "rejected", "join_wait", "bcast", "recv",
                                      "op_wait", "part_wait", "part_bcast", "done", "crashed"}
    /\ budget \in 0..MaxMsgs

\* ---- vocabulary of the properties ----
RECURSIVE SumOver(_, _)
SumOver(f, D) ==
    IF D = {} THEN 0
    ELSE LET k == CHOOSE x \in D : TRUE IN f[k] + SumOver(f, D \ {k})

\* the total of a snapshot's counts: per-value counts plus the pending key
Total(c) == SumOver(c, DOMAIN c)

\* the handler of the connection has ended
Ended(s) == pc[s] \in {"rejected", "done", "crashed"}

\* the connection has joined and its handler is in its message loop
InLoop(s) == pc[s] \in {"bcast", "recv", "op_wait"}

\* the connection has joined and its handler has not yet run lines 146-149
Present(s) == pc[s] \in {"bcast", "recv", "op_wait", "part_wait"}

\* the room r holds a user entry whose connection handle is s
HasEntry(s, r) ==
    /\ r \in DOMAIN rooms
    /\ \E i \in DOMAIN rooms[r].users : rooms[r].users[i].ws = s

\* ---- C1 ----
\* C1: in every snapshot room_state produces, the per-value counts plus the
\* count under the key "pending" add up to the number of users of the room.
C1_CountsPartitionUsers ==
    \A r \in DOMAIN rooms :
        ~room_state_raises(rooms, r) =>
            Total(room_state(rooms, r).counts) = Len(room_state(rooms, r).users)

\* ---- C2 ----
\* C2: no two connected sessions of a room hold the same effective name, and
\* each of them has the user entry of its name (a join never takes over the
\* entry of a present user).
C2_EffectiveNamesUnique ==
    \A s \in Sessions : \A t \in Sessions :
        (s # t /\ Present(s) /\ Present(t) /\ room[s] = room[t]) =>
            /\ user[s] # user[t]
            /\ HasEntry(s, room[s])

\* ---- C3 ----
\* C3: at every suspension point a room is registered iff a connected session
\* has a user entry in it, every connected session has its entry in a
\* registered room, and no entry of an ended session stays in a room.
C3_RoomIffConnectedUser ==
    /\ \A r \in RoomIds :
          (r \in DOMAIN rooms) <=> (\E s \in Sessions : Present(s) /\ room[s] = r /\ HasEntry(s, r))
    /\ \A s \in Sessions : InLoop(s) => HasEntry(s, room[s])
    /\ \A s \in Sessions : Ended(s) => \A r \in DOMAIN rooms : ~HasEntry(s, r)

\* ---- C4 ----
NotJson == [kind |-> "notjson"]
Object(m) == [kind |-> "object", msg |-> m]

\* the step in which the handler of s runs lines 125-139 for a reset message
\* on a registered room
ProcessesReset(s) ==
    /\ room[s] \in DOMAIN rooms
    /\ \/ Receive(s, Object([type |-> "reset"])) /\ CanAcquire(rooms[room[s]].lock)
       \/ ResumeOp(s) /\ op[s].type = "reset"

\* C4: a reset appends exactly one history entry whose results are the
\* room's counts immediately before it, and leaves every vote None and the
\* title None.
C4_ResetRecordsRound ==
    [][\A s \in Sessions :
         ProcessesReset(s) =>
            LET r == room[s]
                n == Len(rooms[r].history)
            IN  /\ r \in DOMAIN rooms'
                /\ Len(rooms'[r].history) = n + 1
                /\ SubSeq(rooms'[r].history, 1, n) = rooms[r].history
                /\ rooms'[r].history[n + 1].results = room_state(rooms, r).counts
                /\ \A i \in DOMAIN rooms'[r].users : rooms'[r].users[i].vote = None
                /\ rooms'[r].current_title = None]_vars

\* ---- C5 ----
\* a step that appends to the history of room r
Appended(r) ==
    /\ r \in DOMAIN rooms
    /\ r \in DOMAIN rooms'
    /\ Len(rooms'[r].history) = Len(rooms[r].history) + 1

\* C5 as stated: the entry a reset appends has the room's title whenever a
\* title is set, for every string, and the sentinel, never None, otherwise.
C5_TitleOfEverySetString ==
    [][\A r \in RoomIds :
         Appended(r) =>
            LET t == rooms[r].current_title
                e == rooms'[r].history[Len(rooms'[r].history)]
            IN  /\ e.title # None
                /\ e.title = IF t # None THEN t ELSE SinTitulo]_vars

\* C5 amended: the entry a reset appends has the room's title whenever that
\* title is a non-empty string, and the sentinel, never None, when the title
\* is None or the empty string.
C5_TitleOrSentinel ==
    [][\A r \in RoomIds :
         Appended(r) =>
            LET t == rooms[r].current_title
                e == rooms'[r].history[Len(rooms'[r].history)]
            IN  /\ e.title # None
                /\ e.title = IF t # None /\ t # "" THEN t ELSE SinTitulo]_vars

\* a reset has recorded a round under the title a client set
C5_Witness ==
    \E r \in DOMAIN rooms :
        /\ rooms[r].history # <<>>
        /\ rooms[r].history[1].title = "Story 1"

\* ---- C6 ----
\* the vote recorded in the room for the effective name of s
Recorded(s) ==
    IF room[s] \in DOMAIN rooms /\ user[s] \in Names(rooms[room[s]].users)
    THEN rooms[room[s]].users[IndexOf(rooms[room[s]].users, user[s])].vote
    ELSE None

\* the vote of s, a value of the available list, has been processed, its
\* broadcast is in flight, and no reset has been processed since
VoteInFlight(s) ==
    /\ pc[s] = "bcast"
    /\ bmsg[s].type = "vote"
    /\ bmsg[s].value \in Available
    /\ room[s] \in DOMAIN rooms
    /\ rooms[room[s]].history = bmsg[s].state.history

\* C6: when the votes of two users of a room, with values of the available
\* list, have both been processed, each sender's recorded vote is the value
\* it sent and the snapshots broadcast count exactly the users.
C6_NoLostVote ==
    \A s \in Sessions : \A t \in Sessions :
        (s # t /\ room[s] = room[t] /\ VoteInFlight(s) /\ VoteInFlight(t)) =>
            /\ Recorded(s) = bmsg[s].value
            /\ Recorded(t) = bmsg[t].value
            /\ Total(bmsg[s].state.counts) = Len(bmsg[s].state.users)
            /\ Total(bmsg[t].state.counts) = Len(bmsg[t].state.users)

\* ---- C7 ----
\* C7: when a session has ended, by transport close or by an exception, its
\* user entry is out of its room, and no room is left registered empty.
C7_EndedSessionHasParted ==
    /\ \A s \in Sessions :
          pc[s] \in {"done", "crashed"} => \A r \in DOMAIN rooms : ~HasEntry(s, r)
    /\ \A r \in DOMAIN rooms : rooms[r].users # <<>>

\* ---- C8 ----
\* valid JSON that is no recognized message: not an object, an object
\* without type, an object of unknown type
Unrecognized ==
    {[kind |-> "nonobject"], Object([type |-> None]), Object([type |-> "unknown"])}

\* C8: a payload that is valid JSON but no recognized message changes
\* nothing, is answered by nothing, and leaves the session in its loop.
C8_UnrecognizedIgnored ==
    [][\A s \in Sessions : \A p \in Unrecognized :
         Receive(s, p) =>
            /\ pc'[s] = "recv"
            /\ UNCHANGED <<rooms, lastMsg, bq, bmsg>>]_vars

\* ---- C9 ----
\* the vote of s is one the handler can apply at once: s has its entry, the
\* lock is free, and no vote of the room is unhashable
VoteApplicable(s, v) ==
    /\ room[s] \in DOMAIN rooms
    /\ user[s] \in Names(rooms[room[s]].users)
    /\ CanAcquire(rooms[room[s]].lock)
    /\ ~room_state_raises(SetVote(rooms, room[s], user[s], v), room[s])

AllGone(r, s) ==
    \A t \in Sessions : (t # s /\ room[t] = r) => Ended(t)

\* C10: once every user of a room has disconnected the room is gone: the
\* snapshot a later join of the same room identifier gets has empty history
\* and None title.
C10_FreshAfterLastLeft ==
    [][\A s \in Sessions : \A r \in RoomIds : \A u \in RequestedNames :
         (Join(s, r, u) /\ AllGone(r, s) /\ pc'[s] = "bcast") =>
            /\ bmsg'[s].type = "joined"
            /\ bmsg'[s].state.history = <<>>
            /\ bmsg'[s].state.title = None]_vars

\* ---- C11 ----
RequestState == Object([type |-> "request_state"])

\* C11: a request_state message is answered by exactly one state message, to
\* the requesting connection only: no other connection is delivered anything,
\* no broadcast starts, and the rooms are left unchanged.
C11_RequestStateRepliesToRequester ==
    [][\A s \in Sessions :
         Receive(s, RequestState) =>
            /\ pc'[s] = "recv"
            /\ lastMsg'[s].type = "state"
            /\ lastMsg'[s].state = room_state(rooms, room[s])
            /\ \A t \in Sessions \ {s} : lastMsg'[t] = lastMsg[t]
            /\ UNCHANGED <<rooms, bq, bmsg>>]_vars

\* ---- C12 ----
\* C12: while a room stays registered its history is left unchanged or gets
\* exactly one entry appended at its end by a step, the entries it had stay as
\* they were and where they were, and an append happens only in a step that
\* processes a reset message.
C12_HistoryAppendOnlyAtReset ==
    [][\A r \in RoomIds :
         (r \in DOMAIN rooms /\ r \in DOMAIN rooms') =>
            LET h == rooms[r].history
                h2 == rooms'[r].history
            IN  \/ h2 = h
                \/ /\ Len(h2) = Len(h) + 1
                   /\ SubSeq(h2, 1, Len(h)) = h
                   /\ \E s \in Sessions : room[s] = r /\ ProcessesReset(s)]_vars

\* two resets have been processed in one room
C12_Witness ==
    \E r \in DOMAIN rooms : Len(rooms[r].history) = 2

\* ---- C13 ----
\* the connection the broadcast of s sends to next does not take the message
SendFails(s) ==
    /\ pc[s] \in {"bcast", "part_bcast"}
    /\ bq[s] # <<>>
    /\ ~Open(Head(bq[s]))

\* C13: a send of a broadcast that fails leaves the rooms as they are (the
\* mutation applied, the room registered), leaves the sender in its
\* broadcast or back in its loop, and the broadcast goes on with every user
\* that was still to be sent to; the list of recipients of a broadcast is
\* the room's users at its start and only ever loses its first element, and
\* every connection that takes the message gets the message of the broadcast.
C13_FailedSendDoesNotAbort ==
    [][\A s \in Sessions :
         /\ (SendFails(s) /\ Send(s)) =>
               /\ bq'[s] = Tail(bq[s])
               /\ rooms' = rooms
               /\ lastMsg' = lastMsg
               /\ pc'[s] = IF Tail(bq[s]) # <<>> THEN pc[s]
                           ELSE IF pc[s] = "bcast" THEN "recv" ELSE "done"
         /\ (Send(s) /\ Open(Head(bq[s]))) => lastMsg'[Head(bq[s])] = bmsg[s]
         /\ bq'[s] # bq[s] =>
               \/ bq[s] # <<>> /\ bq'[s] = Tail(bq[s])
               \/ /\ bq[s] = <<>>
                  /\ room'[s] \in DOMAIN rooms'
                  /\ bq'[s] = [i \in DOMAIN rooms'[room'[s]].users |->
                                  rooms'[room'[s]].users[i].ws]]_vars

\* a broadcast has gone past a user whose connection is closed and has users
\* still to send to
C13_Witness ==
    \E s \in Sessions :
        /\ pc[s] = "bcast"
        /\ room[s] \in DOMAIN rooms
        /\ LET us == rooms[room[s]].users
               k == Len(us) - Len(bq[s])
           IN  /\ bq[s] # <<>>
               /\ k >= 1
               /\ bq[s] = [i \in 1..Len(bq[s]) |-> us[k + i].ws]
               /\ ~Open(us[k].ws)

\* ---- C14 ----
\* the snapshot of a room that has no users, no votes, no title, no history
EmptySnapshot ==
    [users |-> <<>>, available |-> FIB, counts |-> [k \in {"pending"} |-> 0],
     title |-> None, history |-> <<>>]

\* C14: room_state of a room identifier that is not in the registry is the
\* canonical empty snapshot, with counts {pending: 0}: the state message that
\* answers a request_state of a session whose room is not registered carries
\* that snapshot.
C14_MissingRoomSnapshot ==
    [][\A s \in Sessions :
         (Receive(s, RequestState) /\ room[s] \notin DOMAIN rooms) =>
            /\ lastMsg'[s].type = "state"
            /\ lastMsg'[s].state = EmptySnapshot]_vars

\* ---- C15 ----
ErrorMsg == [type |-> "error", msg |-> "missing room or user"]

\* C15: a connection opened without room or without user is delivered the
\* error message, and only it, and is closed; the registry with every room's
\* users, the broadcasts, the locks and what every other connection has been
\* delivered are left unchanged, and the connection never gets a user entry.
C15_MissingParamsRejected ==
    [][\A s \in Sessions :
         /\ ConnectMissing(s) =>
               /\ lastMsg'[s] = ErrorMsg
               /\ pc'[s] = "rejected"
               /\ \A t \in Sessions \ {s} : lastMsg'[t] = lastMsg[t]
               /\ UNCHANGED <<rooms, bq, bmsg, lockHeld, waiters, room, user>>
         /\ pc[s] = "rejected" =>
               /\ pc'[s] = "rejected"
               /\ lastMsg'[s] = ErrorMsg
               /\ \A r \in DOMAIN rooms' : ~HasEntry(s, r)']_vars

\* a connection has been rejected while a room with a user is registered
C15_Witness ==
    \E s \in Sessions :
        /\ pc[s] = "rejected"
        /\ lastMsg[s] = ErrorMsg
        /\ \E r \in DOMAIN rooms : rooms[r].users # <<>>

\* ---- C16 ----
\* C16: a join that has waited for the room's lock goes on in the room that
\* is registered under its identifier (the lookup of the room does not
\* fail), with the lock of that room and not that of a removed one, and ends
\* with the joiner's entry in that room.
C16_JoinEntersRegisteredRoom ==
    [][\A s \in Sessions :
         ResumeJoin(s) =>
            /\ room[s] \in DOMAIN rooms
            /\ rooms[room[s]].lock = myLock[s]
            /\ HasEntry(s, room[s])']_vars

\* ---- C17 ----
\* C17: no send of a broadcast happens while a room's lock is held: a task
\* that has deliveries of a broadcast to make holds no lock, and the lock of
\* its room is not held.
C17_NoSendUnderLock ==
    \A s \in Sessions :
        (pc[s] \in {"bcast", "part_bcast"} /\ bq[s] # <<>>) =>
            /\ myLock[s] = NoLock
            /\ room[s] \in DOMAIN rooms => ~lockHeld[rooms[room[s]].lock]

\* ---- C18 ----
\* the task of s starts a broadcast in this step
StartsBroadcast(s) == bmsg[s] = NoMsg /\ bmsg'[s] # NoMsg

\* C18: the snapshot of a broadcast is the state the room has at the end of
\* the step that makes the mutation (no step of another task lies between
\* the mutation and the snapshot); the message of a broadcast stays the same
\* until its last send, and every connection that takes a send of it is
\* delivered that message.
C18_SnapshotOfTheMutation ==
    [][\A s \in Sessions :
         /\ StartsBroadcast(s) =>
               bmsg'[s].state = room_state(rooms', room'[s])
         /\ bmsg[s] # NoMsg =>
               /\ bmsg'[s] \in {bmsg[s], NoMsg}
               /\ bmsg'[s] = NoMsg => Send(s) /\ bq'[s] = <<>>
         /\ (Send(s) /\ Open(Head(bq[s]))) => lastMsg'[Head(bq[s])] = bmsg[s]
         /\ bmsg[s] = NoMsg => bq[s] = <<>>]_vars

\* a recipient has been delivered the message of a broadcast that has sends
\* still to make, and the room has been changed since by another task
C18_Witness ==
    \E s \in Sessions : \E w \in Sessions \ {s} :
        /\ pc[s] = "bcast"
        /\ bq[s] # <<>>
        /\ lastMsg[w] = bmsg[s]
        /\ bmsg[s].state # room_state(rooms, room[s])

\* ---- C19 ----
\* the step in which the handler of s runs line 120 for a vote of value v,
\* or line 114 for a set_title of title t, on a registered room
ProcessesVote(s, v) ==
    /\ room[s] \in DOMAIN rooms
    /\ \/ Receive(s, Object([type |-> "vote", value |-> v]))
             /\ CanAcquire(rooms[room[s]].lock)
       \/ ResumeOp(s) /\ op[s] = [type |-> "vote", value |-> v]

ProcessesSetTitle(s, t) ==
    /\ room[s] \in DOMAIN rooms
    /\ \/ Receive(s, Object([type |-> "set_title", title |-> t]))
             /\ CanAcquire(rooms[room[s]].lock)
       \/ ResumeOp(s) /\ op[s] = [type |-> "set_title", title |-> t]

\* who is in the room: the names and their connections, in order
Membership(r) ==
    [i \in DOMAIN rooms[r].users |->
        [name |-> rooms[r].users[i].name, ws |-> rooms[r].users[i].ws]]

\* C19: a vote makes the sender's recorded vote the value sent and leaves
\* the recorded vote of every other connected session of the room, the
\* title, the history and the membership as they were; a set_title sets the
\* title and leaves every vote, the history and the membership as they were.
C19_VoteAndTitleFrame ==
    [][\A s \in Sessions :
         /\ \A v \in Values :
               ProcessesVote(s, v) =>
                  /\ room[s] \in DOMAIN rooms'
                  /\ Recorded(s)' = v
                  /\ \A t \in Sessions \ {s} :
                        (Present(t) /\ room[t] = room[s]) => Recorded(t)' = Recorded(t)
                  /\ rooms'[room[s]].current_title = rooms[room[s]].current_title
                  /\ rooms'[room[s]].history = rooms[room[s]].history
                  /\ Membership(room[s])' = Membership(room[s])
         /\ \A t \in Titles :
               ProcessesSetTitle(s, t) =>
                  rooms' = [rooms EXCEPT ![room[s]].current_title = t]]_vars

\* ---- C20 ----
\* no handler is in a broadcast, waits for a lock or has ended: every
\* message read has been processed, every broadcast has made its last send,
\* and no connection has been closed, so that no send has failed
Quiescent == \A s \in Sessions : pc[s] \in {"init", "rejected", "recv"}

\* C20: when the room is quiescent, the snapshot last delivered to each
\* connected user of a room is the room's current state.
C20_ViewsConverge ==
    Quiescent =>
        \A s \in Sessions :
            (pc[s] = "recv" /\ HasEntry(s, room[s])) =>
                /\ lastMsg[s] # NoMsg
                /\ lastMsg[s].state = room_state(rooms, room[s])

====
